---- MODULE Spec2Model ----
(***************************************************************************)
(* Model of elfo-logger's LineBuffer (src/elfo-logger/src/line_buffer.rs): *)
(* the three text buffers, the two write transactions (TruncatingWrite,    *)
(* DirectWrite), their commit and Drop, and the safe_truncate primitive.   *)
(* A String is a sequence of UTF-8 bytes (numbers 0..255).                 *)
(***************************************************************************)
EXTENDS Integers, Sequences, FiniteSets, TLC

\* ------------------------------------------------------------------ bounds
\* a transaction is opened while the three buffers hold at most this many
\* bytes together; past that the caller calls clear() first
MaxOpenLen == 4
\* most push_str calls on the handles of one transaction
MaxPushes == 3
\* the budgets configure()/with_capacity() are called with: 0, one below the
\* marker length, one that leaves room for the marker
SmallLimit == 3
BigLimit == 12
\* most characters of a text handed to safe_truncate on its own
MaxChars == 3
\* largest budget of the worked examples, and how many of them one buffer takes
MaxExampleLimit == 24
MaxExampleLines == 2
\* most messages waiting in the mailbox of the actor
MaxMailbox == 2

\* --------------------------------------------------------------- constants
\* " TRUNCATED"
TRUNCATED_MARKER == <<32, 84, 82, 85, 78, 67, 65, 84, 69, 68>>
\* '\n'
NL == 10

\* ------------------------------------------------------------------ inputs
\* "a", "é" (2 bytes), "b€bb" (6 bytes, a 3-byte character inside)
Chunks == { <<97>>, <<195, 169>>, <<98, 226, 130, 172, 98, 98>> }
Limits == {0, SmallLimit, BigLimit}
\* characters safe_truncate is tried on: "a", "é", "€", U+1FAF1 (4 bytes)
Chars == { <<97>>, <<195, 169>>, <<226, 130, 172>>, <<240, 159, 171, 177>> }

\* ----------------------------------------------------------------- strings
Min(a, b) == IF a <= b THEN a ELSE b

Take(s, n) == SubSeq(s, 1, n)

From(s, n) == SubSeq(s, n + 1, Len(s))

RECURSIVE Flatten(_)
Flatten(ss) == IF ss = <<>> THEN <<>> ELSE Head(ss) \o Flatten(Tail(ss))

\* usize::saturating_sub
saturating_sub(a, b) == IF a >= b THEN a - b ELSE 0

\* str::is_char_boundary: 0 and len are boundaries, an index past the end is
\* not, otherwise the byte at the index must not be a continuation byte
\* (10xxxxxx, i.e. 128..191)
is_char_boundary(text, index) ==
    IF index = 0 THEN TRUE
    ELSE IF index >= Len(text) THEN index = Len(text)
    ELSE text[index + 1] < 128 \/ text[index + 1] >= 192

\* the loop of safe_truncate: walk down from `to` to a character boundary
RECURSIVE find_boundary(_, _)
find_boundary(text, boundary) ==
    IF is_char_boundary(text, boundary) THEN boundary
    ELSE find_boundary(text, boundary - 1)

\* String::truncate: no effect when new_len > len; panics off a boundary
String_truncate(text, new_len) ==
    IF new_len <= Len(text) THEN Take(text, new_len) ELSE text

truncate_panics(text, new_len) ==
    new_len <= Len(text) /\ ~is_char_boundary(text, new_len)

\* safe_truncate at `to` exactly, without looking for a boundary
safe_truncate_no_rounding(text, to) ==
    [text |-> String_truncate(text, to), ret |-> 0,
     panic |-> truncate_panics(text, to)]

\* safe_truncate returning every byte it removed
safe_truncate_returns_removed(text, to) ==
    LET boundary == find_boundary(text, to)
    IN [text |-> String_truncate(text, boundary),
        ret |-> Len(text) - boundary,
        panic |-> truncate_panics(text, boundary)]

\* safe_truncate(text, to): the text left and the value returned
safe_truncate(text, to) ==
    LET boundary == find_boundary(text, to)
    IN [text |-> String_truncate(text, boundary), ret |-> to - boundary,
        panic |-> truncate_panics(text, boundary)]

\* -------------------------------------------------------------- LineBuffer
with_capacity(capacity, max_line_size) ==
    [buffer |-> <<>>, payload |-> <<>>, fields |-> <<>>,
     max_line_size |-> max_line_size]

\* configure() that does not store the value
configure_ignored(b, max_line_size) == b

configure(b, max_line_size) == [b EXCEPT !.max_line_size = max_line_size]

\* clear() that empties buffer only
clear_buffer_only(b) == [b EXCEPT !.buffer = <<>>]

clear(b) == [b EXCEPT !.buffer = <<>>, !.payload = <<>>, !.fields = <<>>]

as_str(b) == b.buffer

\* Repr: the transaction kind and the length of buffer when it was opened
create_repr(b, kind) == [kind |-> kind, pre_start_buffer_size |-> Len(b.buffer)]

NoLine == [kind |-> "none", pre_start_buffer_size |-> 0]

\* --------------------------------------------------------- TruncatingWrite
\* meta_len with pre_start_buffer_size left out
meta_len_whole_buffer(b, pre) == Len(b.buffer)

meta_len(b, pre) == Len(b.buffer) - pre

len(b, pre) == meta_len(b, pre) + Len(b.payload) + Len(b.fields)

\* the trimming of probe_size_limit with fields trimmed before payload
erase_fields_first(b, pre) ==
    LET M == Len(TRUNCATED_MARKER)
        need0 == len(b, pre) - b.max_line_size + M
        payload_len == Len(b.payload)
        fields_len == Len(b.fields)
        mlen == meta_len(b, pre)
        fields_part == Min(fields_len, need0)
        f == safe_truncate(b.fields, fields_len - fields_part)
        need1 == saturating_sub(need0 - fields_part, f.ret)
        payload_part == Min(payload_len, need1)
        p == safe_truncate(b.payload, payload_len - payload_part)
        need2 == saturating_sub(need1 - payload_part, p.ret)
        meta_part == Min(mlen, need2)
        truncate_meta_to == Len(b.buffer) - meta_part
        m == safe_truncate(b.buffer, truncate_meta_to)
    IN [b EXCEPT !.payload = p.text, !.fields = f.text, !.buffer = m.text]

\* that trimming with no room made for the marker
erase_no_marker_room(b, pre) ==
    LET need0 == len(b, pre) - b.max_line_size
        payload_len == Len(b.payload)
        fields_len == Len(b.fields)
        mlen == meta_len(b, pre)
        payload_part == Min(payload_len, need0)
        p == safe_truncate(b.payload, payload_len - payload_part)
        need1 == saturating_sub(need0 - payload_part, p.ret)
        fields_part == Min(fields_len, need1)
        f == safe_truncate(b.fields, fields_len - fields_part)
        need2 == saturating_sub(need1 - fields_part, f.ret)
        meta_part == Min(mlen, need2)
        truncate_meta_to == Len(b.buffer) - meta_part
        m == safe_truncate(b.buffer, truncate_meta_to)
    IN [b EXCEPT !.payload = p.text, !.fields = f.text, !.buffer = m.text]

\* probe_size_limit when len > max_line_size: need_to_erase bytes are taken
\* from the end of payload, then of fields, then of the metadata in buffer
erase(b, pre) ==
    LET M == Len(TRUNCATED_MARKER)
        need0 == len(b, pre) - b.max_line_size + M
        payload_len == Len(b.payload)
        fields_len == Len(b.fields)
        mlen == meta_len(b, pre)
        payload_part == Min(payload_len, need0)
        p == safe_truncate(b.payload, payload_len - payload_part)
        need1 == saturating_sub(need0 - payload_part, p.ret)
        fields_part == Min(fields_len, need1)
        f == safe_truncate(b.fields, fields_len - fields_part)
        need2 == saturating_sub(need1 - fields_part, f.ret)
        meta_part == Min(mlen, need2)
        truncate_meta_to == Len(b.buffer) - meta_part
        m == safe_truncate(b.buffer, truncate_meta_to)
    IN [b EXCEPT !.payload = p.text, !.fields = f.text, !.buffer = m.text]

\* whether one of the String::truncate calls of that trimming panics
erase_panics(b, pre) ==
    LET M == Len(TRUNCATED_MARKER)
        need0 == len(b, pre) - b.max_line_size + M
        payload_len == Len(b.payload)
        fields_len == Len(b.fields)
        mlen == meta_len(b, pre)
        payload_part == Min(payload_len, need0)
        p == safe_truncate(b.payload, payload_len - payload_part)
        need1 == saturating_sub(need0 - payload_part, p.ret)
        fields_part == Min(fields_len, need1)
        f == safe_truncate(b.fields, fields_len - fields_part)
        need2 == saturating_sub(need1 - fields_part, f.ret)
        meta_part == Min(mlen, need2)
        truncate_meta_to == Len(b.buffer) - meta_part
        m == safe_truncate(b.buffer, truncate_meta_to)
    IN p.panic \/ f.panic \/ m.panic

\* probe_size_limit returning true whenever it trimmed
probe_size_limit_always_flags(b, pre) ==
    IF len(b, pre) > b.max_line_size
    THEN [buf |-> erase(b, pre), flag |-> TRUE]
    ELSE [buf |-> b,
          flag |-> len(b, pre) + Len(TRUNCATED_MARKER) <= b.max_line_size]

\* probe_size_limit returning true whenever it did not trim
probe_size_limit_flags_untrimmed(b, pre) ==
    IF len(b, pre) > b.max_line_size
    THEN LET b2 == erase(b, pre)
         IN [buf |-> b2,
             flag |-> len(b2, pre) + Len(TRUNCATED_MARKER) <= b2.max_line_size]
    ELSE [buf |-> b, flag |-> TRUE]

\* probe_size_limit: the buffers after trimming and the value returned
probe_size_limit(b, pre) ==
    IF len(b, pre) > b.max_line_size
    THEN LET b2 == erase(b, pre)
         IN [buf |-> b2,
             flag |-> len(b2, pre) + Len(TRUNCATED_MARKER) <= b2.max_line_size]
    ELSE [buf |-> b,
          flag |-> len(b, pre) + Len(TRUNCATED_MARKER) <= b.max_line_size]

\* TruncatingWrite::try_commit pushing the newline only when the marker is not
TruncatingWrite_try_commit_newline_in_else(b, pre) ==
    LET pr == probe_size_limit(b, pre)
        assembled == pr.buf.buffer \o pr.buf.payload \o pr.buf.fields
                     \o (IF pr.flag THEN TRUNCATED_MARKER ELSE <<NL>>)
    IN [buf |-> [pr.buf EXCEPT !.buffer = assembled], ok |-> TRUE,
        dropped |-> FALSE]

\* TruncatingWrite::try_commit without mem::forget: Drop runs on return
TruncatingWrite_try_commit_not_forgotten(b, pre) ==
    LET pr == probe_size_limit(b, pre)
        assembled == pr.buf.buffer \o pr.buf.payload \o pr.buf.fields
                     \o (IF pr.flag THEN TRUNCATED_MARKER ELSE <<>>)
                     \o <<NL>>
    IN [buf |-> [pr.buf EXCEPT !.buffer = String_truncate(assembled, pre)],
        ok |-> TRUE, dropped |-> TRUE]

\* TruncatingWrite::try_commit: always true; the line is assembled in buffer;
\* mem::forget keeps Drop from running
TruncatingWrite_try_commit(b, pre) ==
    LET pr == probe_size_limit(b, pre)
        assembled == pr.buf.buffer \o pr.buf.payload \o pr.buf.fields
                     \o (IF pr.flag THEN TRUNCATED_MARKER ELSE <<>>)
                     \o <<NL>>
    IN [buf |-> [pr.buf EXCEPT !.buffer = assembled], ok |-> TRUE,
        dropped |-> FALSE]

\* a Drop that leaves buffer as it is
TruncatingWrite_drop_forgets(b, pre) == b

\* a Drop that also empties payload and fields
TruncatingWrite_drop_clears_segments(b, pre) ==
    [b EXCEPT !.buffer = String_truncate(b.buffer, pre),
              !.payload = <<>>, !.fields = <<>>]

\* impl Drop for TruncatingWrite
TruncatingWrite_drop(b, pre) ==
    [b EXCEPT !.buffer = String_truncate(b.buffer, pre)]

\* ------------------------------------------------------------- DirectWrite
DirectWrite_len(b, pre) == Len(b.buffer) - pre

\* impl Drop for DirectWrite
DirectWrite_drop(b, pre) ==
    [b EXCEPT !.buffer = String_truncate(b.buffer, pre)]

\* DirectWrite::try_commit rejecting a line of exactly max_line_size bytes
DirectWrite_try_commit_off_by_one(b, pre) ==
    IF DirectWrite_len(b, pre) >= b.max_line_size
    THEN [buf |-> DirectWrite_drop(b, pre), ok |-> FALSE, dropped |-> TRUE]
    ELSE [buf |-> [b EXCEPT !.buffer = b.buffer \o <<NL>>], ok |-> TRUE,
          dropped |-> FALSE]

\* DirectWrite::try_commit: on false `self` is dropped when the call returns
DirectWrite_try_commit(b, pre) ==
    IF DirectWrite_len(b, pre) > b.max_line_size
    THEN [buf |-> DirectWrite_drop(b, pre), ok |-> FALSE, dropped |-> TRUE]
    ELSE [buf |-> [b EXCEPT !.buffer = b.buffer \o <<NL>>], ok |-> TRUE,
          dropped |-> FALSE]

\* the buffer a handle of the transaction appends to
meta_mut(kind) == "buffer"

\* payload_mut giving `buffer` in both kinds of transaction
payload_mut_shared(kind) == "buffer"

payload_mut(kind) == IF kind = "truncating" THEN "payload" ELSE "buffer"

fields_mut(kind) == IF kind = "truncating" THEN "fields" ELSE "buffer"

\* String::push_str through a handle
push_str(b, target, text) ==
    CASE target = "buffer" -> [b EXCEPT !.buffer = b.buffer \o text]
      [] target = "payload" -> [b EXCEPT !.payload = b.payload \o text]
      [] target = "fields" -> [b EXCEPT !.fields = b.fields \o text]

\* ------------------------------------------------------------------- state
VARIABLES
    buf,       \* the LineBuffer
    line,      \* the open transaction (Repr), NoLine when none is open
    snapshot,  \* history: as_str() when the last transaction was opened
    opened,    \* history: payload and fields when it was opened, and whether
               \* clear() was the call before
    written,   \* history: texts pushed by the open transaction in call order,
               \* through meta_mut only when it is a TruncatingWrite
    wrote,     \* history: texts pushed through each handle of a TruncatingWrite
    last,      \* history: how the last transaction ended, until the next call
    lines,     \* history: lines committed since the last clear()
    pushes,    \* number of push_str calls of the open transaction
    budget,    \* history: the value last given to with_capacity()/configure()
    st,        \* a call of safe_truncate on its own
    actor      \* the singleton actor of the update_config test and its proxy

vars == <<buf, line, snapshot, opened, written, wrote, last, lines, pushes, budget, st, actor>>

NoLast == [op |-> "none", kind |-> "none", max |-> 0, start |-> 0,
           meta |-> <<>>, payload |-> <<>>, fields |-> <<>>,
           trimmed |-> [meta |-> <<>>, payload |-> <<>>, fields |-> <<>>],
           flag |-> FALSE, drops |-> 0]

NoOpened == [payload |-> <<>>, fields |-> <<>>, after_clear |-> FALSE]

NoWrote == [meta |-> <<>>, payload |-> <<>>, fields |-> <<>>]

\* ------------------------------------------------- the actor and its config
\* the `limit` values of the configs of the test: 128, 256, 512 and -256
ConfigLimits == {128, 256, 512, -256}

\* Config { limit: usize } takes a limit that is a usize
deserialize_any_integer(limit) == [ok |-> TRUE, config |-> [limit |-> limit]]

deserialize(limit) ==
    IF limit \in Nat THEN [ok |-> TRUE, config |-> [limit |-> limit]]
    ELSE [ok |-> FALSE, config |-> [limit |-> 0]]

NoReply == [type |-> "none", limit |-> 0, request |-> FALSE, value |-> 0,
            result |-> "none"]

\* the actor started with limit = 128, nothing sent to it
StartedActor ==
    [config |-> [limit |-> 128], mailbox |-> <<>>, reply |-> NoReply,
     newest |-> 128]

\* the actor before elfo::test::proxy starts it
NoActor == [StartedActor EXCEPT !.config = [limit |-> 0], !.newest = 0]

\* how the actor takes the message at the head of its mailbox
handle_message(a) ==
    LET msg == Head(a.mailbox)
        rest == [a EXCEPT !.mailbox = Tail(a.mailbox)]
    IN IF msg.type = "UpdateConfig"
       THEN LET d == deserialize(msg.limit)
            IN [rest EXCEPT
                  !.config = IF d.ok THEN d.config ELSE a.config,
                  !.reply = [type |-> "UpdateConfig", limit |-> msg.limit,
                             request |-> msg.request, value |-> 0,
                             result |-> IF ~msg.request THEN "none"
                                        ELSE IF d.ok THEN "Ok"
                                        ELSE "ConfigRejected"]]
       ELSE [rest EXCEPT
               !.reply = [type |-> "GetLimit", limit |-> msg.limit,
                          request |-> TRUE, value |-> a.config.limit,
                          result |-> "Ok"]]

NoCall == [chars |-> <<>>, text |-> <<>>, to |-> 0, done |-> FALSE,
           out |-> <<>>, ret |-> 0, panic |-> FALSE]

Init ==
    /\ \E n \in Limits : buf = with_capacity(100, n) /\ budget = n
    /\ line = NoLine
    /\ snapshot = <<>>
    /\ opened = NoOpened
    /\ written = <<>>
    /\ wrote = NoWrote
    /\ last = NoLast
    /\ lines = <<>>
    /\ pushes = 0
    /\ st = NoCall
    /\ actor = NoActor

\* LineBuffer::configure
Configure ==
    /\ line.kind = "none"
    /\ \E n \in Limits :
          /\ n # buf.max_line_size
          /\ buf' = configure(buf, n)
          /\ last' = [NoLast EXCEPT !.op = "configure", !.max = n]
          /\ budget' = n
    /\ UNCHANGED <<line, snapshot, opened, written, wrote, lines, pushes, st, actor>>

\* LineBuffer::clear
Clear ==
    /\ line.kind = "none"
    /\ buf' = clear(buf)
    /\ lines' = <<>>
    /\ last' = [NoLast EXCEPT !.op = "clear", !.max = buf.max_line_size]
    /\ UNCHANGED <<line, snapshot, opened, written, wrote, pushes, budget, st, actor>>

Open(kind) ==
    /\ line.kind = "none"
    /\ Len(buf.buffer) + Len(buf.payload) + Len(buf.fields) <= MaxOpenLen
    /\ line' = create_repr(buf, kind)
    /\ snapshot' = as_str(buf)
    /\ opened' = [payload |-> buf.payload, fields |-> buf.fields,
                  after_clear |-> last.op = "clear"]
    /\ written' = <<>>
    /\ wrote' = NoWrote
    /\ pushes' = 0
    /\ last' = NoLast
    /\ UNCHANGED <<buf, lines, budget, st, actor>>

\* LineBuffer::truncating_write
TruncatingWriteOpen == Open("truncating")

\* LineBuffer::direct_write
DirectWriteOpen == Open("direct")

\* the buffer the named handle of a transaction of that kind gives
handle(name, kind) ==
    CASE name = "meta" -> meta_mut(kind)
      [] name = "payload" -> payload_mut(kind)
      [] name = "fields" -> fields_mut(kind)

\* the histories after text went through the named handle
Pushed(name, text) ==
    /\ written' = IF line.kind = "direct" \/ name = "meta"
                  THEN written \o text ELSE written
    /\ wrote' = IF line.kind = "truncating"
                THEN [wrote EXCEPT ![name] = @ \o text] ELSE wrote

Push(name, text) ==
    /\ line.kind # "none"
    /\ pushes < MaxPushes
    /\ pushes' = pushes + 1
    /\ buf' = push_str(buf, handle(name, line.kind), text)
    /\ Pushed(name, text)
    /\ UNCHANGED <<line, snapshot, opened, last, lines, budget, st, actor>>

\* line.meta_mut().push_str(text)
MetaPush == \E text \in Chunks : Push("meta", text)

\* line.payload_mut().push_str(text)
PayloadPush == \E text \in Chunks : Push("payload", text)

\* line.fields_mut().push_str(text)
FieldsPush == \E text \in Chunks : Push("fields", text)

\* what the transaction holds when it ends
Ending(op, trimmed, flag, dropped) ==
    [op |-> op, kind |-> line.kind, max |-> buf.max_line_size,
     start |-> line.pre_start_buffer_size,
     meta |-> From(buf.buffer, line.pre_start_buffer_size),
     payload |-> buf.payload, fields |-> buf.fields,
     trimmed |-> trimmed, flag |-> flag,
     drops |-> IF dropped THEN 1 ELSE 0]

Untrimmed ==
    [meta |-> From(buf.buffer, line.pre_start_buffer_size),
     payload |-> buf.payload, fields |-> buf.fields]

\* line.try_commit() on a TruncatingWrite
TruncatingTryCommit ==
    /\ line.kind = "truncating"
    /\ LET pre == line.pre_start_buffer_size
           pr == probe_size_limit(buf, pre)
           r == TruncatingWrite_try_commit(buf, pre)
       IN /\ buf' = r.buf
          /\ last' = Ending(IF r.ok THEN "commit" ELSE "reject",
                            [meta |-> From(pr.buf.buffer, pre),
                             payload |-> pr.buf.payload,
                             fields |-> pr.buf.fields], pr.flag, r.dropped)
          /\ lines' = lines \o <<From(r.buf.buffer, pre)>>
    /\ line' = NoLine
    /\ UNCHANGED <<snapshot, opened, written, wrote, pushes, budget, st, actor>>

\* line.try_commit() on a DirectWrite
DirectTryCommit ==
    /\ line.kind = "direct"
    /\ LET pre == line.pre_start_buffer_size
           r == DirectWrite_try_commit(buf, pre)
       IN /\ buf' = r.buf
          /\ last' = Ending(IF r.ok THEN "commit" ELSE "reject", Untrimmed, FALSE,
                            r.dropped)
          /\ lines' = IF r.ok THEN lines \o <<From(r.buf.buffer, pre)>> ELSE lines
    /\ line' = NoLine
    /\ UNCHANGED <<snapshot, opened, written, wrote, pushes, budget, st, actor>>

\* the transaction goes out of scope without try_commit
DropLine ==
    /\ line.kind # "none"
    /\ buf' = IF line.kind = "truncating"
              THEN TruncatingWrite_drop(buf, line.pre_start_buffer_size)
              ELSE DirectWrite_drop(buf, line.pre_start_buffer_size)
    /\ last' = Ending("drop", Untrimmed, FALSE, TRUE)
    /\ line' = NoLine
    /\ UNCHANGED <<snapshot, opened, written, wrote, lines, pushes, budget, st, actor>>

Next ==
    \/ Configure
    \/ Clear
    \/ TruncatingWriteOpen
    \/ DirectWriteOpen
    \/ MetaPush
    \/ PayloadPush
    \/ FieldsPush
    \/ TruncatingTryCommit
    \/ DirectTryCommit
    \/ DropLine

Spec == Init /\ [][Next]_vars

\* ------------------------------------------------- safe_truncate on its own
\* valid UTF-8 texts: concatenations of at most MaxChars characters
CharSeqs == UNION { [1..n -> Chars] : n \in 0..MaxChars }

InitSafeTruncate ==
    /\ buf = with_capacity(100, 0)
    /\ budget = 0
    /\ line = NoLine
    /\ snapshot = <<>>
    /\ opened = NoOpened
    /\ written = <<>>
    /\ wrote = NoWrote
    /\ last = NoLast
    /\ lines = <<>>
    /\ pushes = 0
    /\ actor = NoActor
    /\ \E cs \in CharSeqs : \E to \in 0..Len(Flatten(cs)) :
          st = [NoCall EXCEPT !.chars = cs, !.text = Flatten(cs), !.to = to]

\* safe_truncate(&mut text, to)
SafeTruncateCall ==
    /\ ~st.done
    /\ LET r == safe_truncate(st.text, st.to)
       IN st' = [st EXCEPT !.done = TRUE, !.out = r.text, !.ret = r.ret,
                           !.panic = r.panic]
    /\ UNCHANGED <<buf, line, snapshot, opened, written, wrote, last, lines, pushes, budget,
                   actor>>

NextSafeTruncate == SafeTruncateCall

SpecSafeTruncate == InitSafeTruncate /\ [][NextSafeTruncate]_vars

\* ------------------------------------------------------- the worked examples
\* the inputs of tests::test_log_truncation
Caffee == [meta |-> <<99, 97, 102, 102, 101, 101, 32>>,
           payload |-> <<108, 97, 116, 116, 101, 32>>,
           fields |-> <<106, 105, 32>>]

Kek == [meta |-> <<108, 32>>,
        payload |-> <<97, 32>>,
        fields |-> <<107, 101, 107, 101, 107, 101, 107, 101, 107, 101,
                     107, 101, 107, 101, 107, 101, 107, 101, 107, 101>>]

Hello == [meta |-> <<104, 101, 108, 108, 111, 32>>,
          payload |-> <<119, 111, 114, 108, 100, 32>>,
          fields |-> <<109, 111, 100, 117, 108, 101, 61, 49, 50, 51, 52>>]

Cases == {Caffee, Kek, Hello}

\* LineBuffer::with_capacity(100, limit) of truncation_parametrized
InitExamples ==
    /\ \E limit \in 0..MaxExampleLimit :
          buf = with_capacity(100, limit) /\ budget = limit
    /\ line = NoLine
    /\ snapshot = <<>>
    /\ opened = NoOpened
    /\ written = <<>>
    /\ wrote = NoWrote
    /\ last = NoLast
    /\ lines = <<>>
    /\ pushes = 0
    /\ st = NoCall
    /\ actor = NoActor

\* buffer.truncating_write() of truncation_parametrized
ExampleOpen ==
    /\ line.kind = "none"
    /\ Len(lines) < MaxExampleLines
    /\ line' = create_repr(buf, "truncating")
    /\ snapshot' = as_str(buf)
    /\ opened' = [payload |-> buf.payload, fields |-> buf.fields,
                  after_clear |-> last.op = "clear"]
    /\ written' = <<>>
    /\ wrote' = NoWrote
    /\ pushes' = 0
    /\ last' = NoLast
    /\ UNCHANGED <<buf, lines, budget, st, actor>>

\* the three push_str calls of put_msg, in its order
ExamplePush ==
    /\ line.kind = "truncating"
    /\ pushes < 3
    /\ \E c \in Cases :
        /\ pushes > 0 => written = c.meta
        /\ LET name == CASE pushes = 0 -> "meta"
                          [] pushes = 1 -> "payload"
                          [] pushes = 2 -> "fields"
           IN /\ buf' = push_str(buf, handle(name, line.kind), c[name])
              /\ Pushed(name, c[name])
    /\ pushes' = pushes + 1
    /\ UNCHANGED <<line, snapshot, opened, last, lines, budget, st, actor>>

\* line.try_commit() of put_msg
ExampleCommit ==
    /\ pushes = 3
    /\ TruncatingTryCommit

NextExamples ==
    \/ ExampleOpen
    \/ ExamplePush
    \/ ExampleCommit

SpecExamples == InitExamples /\ [][NextExamples]_vars

\* ------------------------------------------------ the update_config test
\* elfo::test::proxy(blueprint, config) with limit = 128
InitConfig ==
    /\ buf = with_capacity(100, 0)
    /\ budget = 0
    /\ line = NoLine
    /\ snapshot = <<>>
    /\ opened = NoOpened
    /\ written = <<>>
    /\ wrote = NoWrote
    /\ last = NoLast
    /\ lines = <<>>
    /\ pushes = 0
    /\ st = NoCall
    /\ actor = StartedActor

LogIdle ==
    UNCHANGED <<buf, line, snapshot, opened, written, wrote, last, lines,
                pushes, budget, st>>

\* a message put in the mailbox; `newest` is the limit of the valid config
\* sent last
Sent(msg) ==
    /\ Len(actor.mailbox) < MaxMailbox
    /\ actor' = [actor EXCEPT
                   !.mailbox = actor.mailbox \o <<msg>>,
                   !.newest = IF msg.type = "UpdateConfig" /\ msg.limit >= 0
                              THEN msg.limit ELSE actor.newest]
    /\ LogIdle

\* proxy.send(UpdateConfig::new(config))
SendUpdateConfig ==
    \E l \in ConfigLimits :
        Sent([type |-> "UpdateConfig", limit |-> l, request |-> FALSE])

\* proxy.request(UpdateConfig::new(config))
RequestUpdateConfig ==
    \E l \in ConfigLimits :
        Sent([type |-> "UpdateConfig", limit |-> l, request |-> TRUE])

\* proxy.request(GetLimit); the message notes the limit it is to read
RequestGetLimit ==
    Sent([type |-> "GetLimit", limit |-> actor.newest, request |-> TRUE])

\* the actor takes the next message
ActorHandles ==
    /\ actor.mailbox # <<>>
    /\ actor' = handle_message(actor)
    /\ LogIdle

NextConfig ==
    \/ SendUpdateConfig
    \/ RequestUpdateConfig
    \/ RequestGetLimit
    \/ ActorHandles

SpecConfig == InitConfig /\ [][NextConfig]_vars

\* ------------------------------------------------------------- properties
MarkerLen == Len(TRUNCATED_MARKER)

\* the last transaction ended in a successful try_commit of the given kind
Committed(kind) == last.op = "commit" /\ last.kind = kind

\* what that transaction left in buffer after its start mark
LastLine == From(buf.buffer, last.start)

\* current_length of that transaction when try_commit was called
ContentLen == Len(last.meta) + Len(last.payload) + Len(last.fields)

IsPrefix(s, t) == Len(s) <= Len(t) /\ s = Take(t, Len(s))

\* C1: a transaction of either kind that ends without a successful commit
\* (dropped, or a direct try_commit that returned false) leaves as_str()
\* byte-identical to what it was when the transaction was opened.
C1_Rollback ==
    last.op \in {"drop", "reject"} => as_str(buf) = snapshot

C1_Witness ==
    /\ last.op = "drop"
    /\ last.kind = "truncating"
    /\ last.meta # <<>>
    /\ last.payload # <<>>
    /\ snapshot # <<>>

\* C2: the line a truncating commit leaves after the start mark, newline
\* excluded, is at most max_line_size bytes long, unless the content length L
\* before trimming satisfied L <= max_line_size < L + marker length.
C2_Budget ==
    (/\ Committed("truncating")
     /\ ~(ContentLen <= last.max /\ last.max < ContentLen + MarkerLen))
    => Len(LastLine) - 1 <= last.max

C2_Witness ==
    /\ Committed("truncating")
    /\ ContentLen > last.max
    /\ last.flag
    /\ last.trimmed.meta # <<>>
    /\ snapshot # <<>>

\* C3: a truncating commit with current_length + marker length <=
\* max_line_size removes nothing and commits meta + payload + fields + newline
\* without the marker; the marker is only on lines that lost content.
C3_CleanLineHasNoMarker ==
    /\ (Committed("truncating") /\ ContentLen + MarkerLen <= last.max)
       => LastLine = last.meta \o last.payload \o last.fields \o <<NL>>
    /\ (Committed("truncating") /\ last.flag)
       => Len(last.trimmed.meta) + Len(last.trimmed.payload)
          + Len(last.trimmed.fields) < ContentLen

\* C4: a direct try_commit either returns true and leaves the previous
\* buffer + everything written + one newline, or returns false and leaves
\* the previous buffer; it returns false exactly when more than
\* max_line_size bytes were written.
C4_DirectAllOrNothing ==
    (last.kind = "direct" /\ last.op \in {"commit", "reject"}) =>
        /\ last.op = "commit" => as_str(buf) = snapshot \o written \o <<NL>>
        /\ last.op = "reject" => as_str(buf) = snapshot
        /\ last.op = "reject" <=> Len(written) > last.max

C4_Witness ==
    /\ Committed("direct")
    /\ Len(written) = last.max
    /\ last.max > 0
    /\ snapshot # <<>>

\* C5: a truncating commit takes bytes off the end of fields only when it
\* has emptied payload, and off the end of the metadata only when it has
\* emptied payload and fields.
C5_PriorityOrder ==
    Committed("truncating") =>
        /\ IsPrefix(last.trimmed.payload, last.payload)
        /\ IsPrefix(last.trimmed.fields, last.fields)
        /\ IsPrefix(last.trimmed.meta, last.meta)
        /\ last.trimmed.fields # last.fields => last.trimmed.payload = <<>>
        /\ last.trimmed.meta # last.meta =>
               last.trimmed.payload = <<>> /\ last.trimmed.fields = <<>>

C5_Witness ==
    /\ Committed("truncating")
    /\ last.payload # <<>>
    /\ last.trimmed.fields # last.fields
    /\ last.trimmed.fields # <<>>

\* C6: with no transaction open, buffer is the concatenation of the lines
\* committed since the last clear(); while one is open, the bytes before its
\* start mark are those of the buffer when it was opened.
C6_AppendOnly ==
    /\ line.kind = "none" => as_str(buf) = Flatten(lines)
    /\ line.kind # "none" =>
          /\ Len(buf.buffer) >= line.pre_start_buffer_size
          /\ Take(buf.buffer, line.pre_start_buffer_size) = snapshot
    /\ last.op = "commit" => Take(buf.buffer, last.start) = snapshot

C6_Witness ==
    /\ Committed("truncating")
    /\ Len(lines) >= 2
    /\ last.trimmed.meta # last.meta
    /\ last.trimmed.meta # <<>>

\* the character boundaries of a text given as its characters
Boundaries(cs) == { Len(Flatten(SubSeq(cs, 1, k))) : k \in 0..Len(cs) }

LargestBoundary(cs, to) ==
    CHOOSE i \in Boundaries(cs) :
        i <= to /\ \A j \in Boundaries(cs) : j <= to => j <= i

\* C7: safe_truncate(text, to) with to <= len leaves the prefix of text that
\* ends at the largest character boundary <= to, and does not panic.
C7_SafeTruncate ==
    st.done =>
        /\ st.out = Take(st.text, LargestBoundary(st.chars, st.to))
        /\ Len(st.out) \in Boundaries(st.chars)
        /\ Len(st.out) <= st.to
        /\ ~st.panic

C7_Witness ==
    /\ st.done
    /\ st.to \notin Boundaries(st.chars)
    /\ st.out # <<>>
    /\ Len(st.out) < st.to - 1

\* C8: with max_line_size = 0 a truncating commit leaves exactly "\n",
\* whatever meta, payload and fields held.
C8_ZeroBudget ==
    (Committed("truncating") /\ last.max = 0) =>
        /\ LastLine = <<NL>>
        /\ buf.payload = <<>> /\ buf.fields = <<>>

C8_Witness ==
    /\ Committed("truncating")
    /\ last.max = 0
    /\ last.meta # <<>> /\ last.payload # <<>> /\ last.fields # <<>>
    /\ Len(lines) >= 2

\* "caffe TRUNCATED\n" and "hello modu TRUNCATED\n"
CaffeLine == <<99, 97, 102, 102, 101>> \o TRUNCATED_MARKER \o <<NL>>

HelloLine == <<104, 101, 108, 108, 111, 32, 109, 111, 100, 117>>
             \o TRUNCATED_MARKER \o <<NL>>

\* put_msg with the texts of c was committed on a fresh buffer of that limit
FreshPut(c, limit) ==
    /\ Committed("truncating")
    /\ Len(lines) = 1
    /\ last.max = limit
    /\ last.meta = c.meta /\ last.payload = c.payload /\ last.fields = c.fields

\* C9 as stated: limit 16 gives "caffe TRUNCATED\n", limit 21 gives
\* "hello modu TRUNCATED\n".
C9_Original ==
    /\ FreshPut(Caffee, 16) => lines[1] = CaffeLine
    /\ FreshPut(Hello, 21) => lines[1] = HelloLine

\* C9 amended: the marker is 10 bytes, so it is limit 15 that gives
\* "caffe TRUNCATED\n" and limit 20 that gives "hello modu TRUNCATED\n".
C9_Examples ==
    /\ FreshPut(Caffee, 5 + MarkerLen) => lines[1] = CaffeLine
    /\ FreshPut(Hello, 10 + MarkerLen) => lines[1] = HelloLine

C9_Witness == FreshPut(Hello, 10 + MarkerLen) /\ MarkerLen = 10

\* C10: a truncating commit with current_length <= max_line_size <
\* current_length + marker length removes nothing and commits
\* meta + payload + fields + " TRUNCATED" + newline.
C10_BoundaryFlagged ==
    (/\ Committed("truncating")
     /\ ContentLen <= last.max
     /\ last.max < ContentLen + MarkerLen)
    => /\ last.trimmed = [meta |-> last.meta, payload |-> last.payload,
                          fields |-> last.fields]
       /\ LastLine = last.meta \o last.payload \o last.fields
                     \o TRUNCATED_MARKER \o <<NL>>

\* C11 as stated: safe_truncate returns the number of bytes it removed,
\* (length before the call) - (length after the call).
C11_Original ==
    st.done => st.ret = Len(st.text) - Len(st.out)

\* C11 amended: safe_truncate returns to - (length after the call), the
\* bytes it removed below the target `to` to reach a character boundary,
\* so the bytes removed in all are (length before - to) + the value returned.
C11_ReturnsRounding ==
    st.done =>
        /\ st.ret = st.to - Len(st.out)
        /\ Len(st.text) - Len(st.out) = (Len(st.text) - st.to) + st.ret
        /\ st.ret = 0 <=> st.to \in Boundaries(st.chars)

C11_Witness ==
    /\ st.done
    /\ st.ret = 2
    /\ st.to < Len(st.text)
    /\ st.out # <<>>

\* the LineBuffer the last transaction called try_commit on
PreCommit ==
    [buffer |-> snapshot \o last.meta, payload |-> last.payload,
     fields |-> last.fields, max_line_size |-> last.max]

\* C12: try_commit of a truncating transaction returns true, without a
\* panic, and appends to buffer exactly one line, which ends with the one
\* newline in it.
C12_TruncationNeverFails ==
    (last.kind = "truncating" /\ last.op \in {"commit", "reject"}) =>
        /\ last.op = "commit"
        /\ ContentLen > last.max => ~erase_panics(PreCommit, last.start)
        /\ as_str(buf) = snapshot \o LastLine
        /\ lines # <<>> /\ lines[Len(lines)] = LastLine
        /\ LastLine # <<>> /\ LastLine[Len(LastLine)] = NL
        /\ \A i \in 1..(Len(LastLine) - 1) : LastLine[i] # NL

C12_Witness ==
    /\ Committed("truncating")
    /\ ContentLen > last.max
    /\ ~last.flag
    /\ last.max > 0
    /\ snapshot # <<>>

EndOps == {"commit", "reject", "drop"}

\* how a transaction that has ended stands
C13_Ended ==
    last.op \in EndOps =>
        /\ line.kind = "none"
        /\ last.op = "commit" <=> last.drops = 0
        /\ last.op = "commit" =>
              as_str(buf) = snapshot \o LastLine /\ LastLine # <<>>
        /\ last.op # "commit" => last.drops = 1 /\ as_str(buf) = snapshot
        /\ last.op = "reject" => last.kind = "direct"

\* a step ends a transaction only if one was open, an open one is closed
\* only by ending, and no step but clear() takes a committed line away
C13_Step ==
    /\ (last'.op \in EndOps /\ last' # last) =>
          line.kind # "none" /\ line'.kind = "none"
    /\ (line.kind # "none" /\ line'.kind = "none") => last'.op \in EndOps
    /\ \/ lines' = <<>>
       \/ IsPrefix(Flatten(lines), as_str(buf'))

\* C13: a transaction ends once, either committed (Drop does not run and
\* the line stays in buffer) or rolled back (Drop ran once and buffer is as
\* at open); a direct try_commit returning false and a transaction dropped
\* without try_commit are rolled back.
C13_Termination == []C13_Ended /\ [][C13_Step]_vars

C13_Witness ==
    /\ last.op = "reject"
    /\ Len(written) > last.max
    /\ last.max > 0
    /\ snapshot # <<>>

\* the marker when the last commit was flagged
LastMarker == IF last.flag THEN TRUNCATED_MARKER ELSE <<>>

\* C14: a truncating transaction dropped without commit leaves buffer as at
\* open and payload and fields with every byte pushed into them; a
\* truncating commit counts what payload and fields held at open in its
\* length and, unless it has to trim, emits it in its line.
C14_RollbackKeepsSegments ==
    /\ (last.op = "drop" /\ last.kind = "truncating") =>
          /\ as_str(buf) = snapshot
          /\ buf.payload = opened.payload \o wrote.payload
          /\ buf.fields = opened.fields \o wrote.fields
    /\ Committed("truncating") =>
          /\ last.payload = opened.payload \o wrote.payload
          /\ last.fields = opened.fields \o wrote.fields
          /\ ContentLen = Len(wrote.meta)
                          + Len(opened.payload) + Len(wrote.payload)
                          + Len(opened.fields) + Len(wrote.fields)
          /\ ContentLen <= last.max =>
                LastLine = wrote.meta \o opened.payload \o wrote.payload
                           \o opened.fields \o wrote.fields
                           \o LastMarker \o <<NL>>

\* a commit on an empty buffer whose payload holds bytes of a transaction
\* that was rolled back
C14_Witness ==
    /\ Committed("truncating")
    /\ snapshot = <<>>
    /\ opened.payload # <<>>
    /\ wrote.payload # <<>>
    /\ ContentLen <= last.max

\* the line a truncating transaction commits on a LineBuffer fresh from
\* with_capacity(_, max) after pushing these texts
FreshLine(meta, payload, fields, max) ==
    LET fresh == with_capacity(100, max)
        pushed == push_str(push_str(push_str(fresh,
                      meta_mut("truncating"), meta),
                      payload_mut("truncating"), payload),
                      fields_mut("truncating"), fields)
    IN as_str(TruncatingWrite_try_commit(pushed, 0).buf)

\* C15: clear() empties buffer, payload and fields and leaves
\* max_line_size; the truncating transaction opened next commits a line
\* made of what was pushed in it only.
C15_Clear ==
    /\ last.op = "clear" =>
          /\ line.kind = "none"
          /\ as_str(buf) = <<>>
          /\ buf = with_capacity(100, last.max)
    /\ (Committed("truncating") /\ opened.after_clear) =>
          /\ last.meta = wrote.meta
          /\ last.payload = wrote.payload
          /\ last.fields = wrote.fields
          /\ as_str(buf) = FreshLine(wrote.meta, wrote.payload, wrote.fields,
                                     last.max)

\* clear() was called after a transaction that was opened on a buffer with
\* lines in it and pushed into payload and fields
C15_Witness ==
    /\ last.op = "clear"
    /\ snapshot # <<>>
    /\ wrote.payload # <<>>
    /\ wrote.fields # <<>>

\* every commit is decided against the value last configured
C16_Budget ==
    /\ buf.max_line_size = budget
    /\ (last.kind = "direct" /\ last.op \in {"commit", "reject"}) =>
          (last.op = "reject" <=> Len(written) > budget)
    /\ Committed("truncating") =>
          LastLine = FreshLine(last.meta, last.payload, last.fields, budget)

\* configure() changes max_line_size and nothing else, and no step of a
\* transaction changes max_line_size
C16_Step ==
    /\ (last'.op = "configure" /\ last' # last) =>
          /\ buf'.max_line_size = last'.max
          /\ buf'.buffer = buf.buffer
          /\ buf'.payload = buf.payload
          /\ buf'.fields = buf.fields
          /\ lines' = lines
    /\ line.kind # "none" => buf'.max_line_size = buf.max_line_size

\* C16: configure(max_line_size) changes only the budget, not buffer,
\* payload or fields, and every commit after it is checked against the new
\* value: a truncating commit trims to it, a direct one is rejected
\* against it.
C16_Configure == []C16_Budget /\ [][C16_Step]_vars

\* a direct commit rejected against a budget smaller than a line that was
\* committed before and is still in buffer
C16_Witness ==
    /\ last.op = "reject"
    /\ lines # <<>>
    /\ Len(lines[1]) - 1 > budget
    /\ as_str(buf) = Flatten(lines)

AllAscii(s) == \A i \in 1..Len(s) : s[i] < 128

\* s without its last n bytes, empty when it has no more than n
Cut(s, n) == IF n <= 0 THEN s ELSE Take(s, Len(s) - Min(Len(s), n))

\* the deficit of the last commit
Deficit == ContentLen - last.max + MarkerLen

\* C18: a truncating commit of single-byte text, payload and fields empty
\* at open, content length L > max_line_size: with max_line_size >= marker
\* length it removes exactly L - max_line_size + marker length bytes, from
\* the end of payload, then fields, then meta, and commits the rest + marker
\* + newline, max_line_size bytes before the newline; with max_line_size <
\* marker length it removes everything and commits "\n".
C18_ExactTrim ==
    (/\ Committed("truncating")
     /\ opened.payload = <<>> /\ opened.fields = <<>>
     /\ AllAscii(last.meta \o last.payload \o last.fields)
     /\ ContentLen > last.max)
    => IF last.max >= MarkerLen
       THEN /\ last.trimmed.payload = Cut(last.payload, Deficit)
            /\ last.trimmed.fields =
                  Cut(last.fields, Deficit - Len(last.payload))
            /\ last.trimmed.meta =
                  Cut(last.meta,
                      Deficit - Len(last.payload) - Len(last.fields))
            /\ ContentLen - Deficit =
                  Len(last.trimmed.meta) + Len(last.trimmed.payload)
                  + Len(last.trimmed.fields)
            /\ LastLine = last.trimmed.meta \o last.trimmed.payload
                          \o last.trimmed.fields \o TRUNCATED_MARKER
                          \o <<NL>>
            /\ Len(LastLine) - 1 = last.max
       ELSE /\ last.trimmed = NoWrote
            /\ LastLine = <<NL>>

C18_Witness ==
    /\ Committed("truncating")
    /\ opened.payload = <<>> /\ opened.fields = <<>>
    /\ ContentLen > last.max
    /\ last.max > MarkerLen
    /\ last.trimmed.fields # <<>>
    /\ last.trimmed.fields # last.fields
    /\ last.payload # <<>>

\* C19: in a truncating transaction the three handles append to three
\* buffers, so whatever the order of the calls the line is made of the meta
\* text, then payload, then fields; in a direct transaction all three append
\* to buffer, so the line is every pushed text in call order.
C19_Handles ==
    /\ line.kind = "truncating" =>
          /\ From(buf.buffer, line.pre_start_buffer_size) = wrote.meta
          /\ buf.payload = opened.payload \o wrote.payload
          /\ buf.fields = opened.fields \o wrote.fields
    /\ Committed("truncating") =>
          /\ last.meta = wrote.meta
          /\ last.payload = opened.payload \o wrote.payload
          /\ last.fields = opened.fields \o wrote.fields
          /\ LastLine = last.trimmed.meta \o last.trimmed.payload
                        \o last.trimmed.fields \o LastMarker \o <<NL>>
    /\ line.kind = "direct" =>
          /\ From(buf.buffer, line.pre_start_buffer_size) = written
          /\ buf.payload = opened.payload
          /\ buf.fields = opened.fields
    /\ Committed("direct") =>
          /\ LastLine = written \o <<NL>>
          /\ buf.payload = opened.payload
          /\ buf.fields = opened.fields

\* a truncating commit after pushes through all three handles
C19_Witness ==
    /\ Committed("truncating")
    /\ pushes = 3
    /\ wrote.meta # <<>>
    /\ wrote.payload # <<>>
    /\ wrote.fields # <<>>
    /\ wrote.meta # wrote.payload
    /\ ContentLen <= last.max

\* C20 as stated: the line of a truncating commit is the line the texts
\* pushed in that transaction give on a fresh buffer.
C20_Original ==
    Committed("truncating") =>
        LastLine = FreshLine(wrote.meta, wrote.payload, wrote.fields, last.max)

\* C20 amended: the line of a truncating commit is the line a fresh buffer
\* gives for the meta text pushed, what payload held at open followed by the
\* payload text pushed, and the same for fields; it does not depend on the
\* lines already in buffer, and with payload and fields empty at open it is
\* the line the pushed texts alone give on a fresh buffer.
C20_LineFromSegments ==
    Committed("truncating") =>
        /\ LastLine = FreshLine(wrote.meta, opened.payload \o wrote.payload,
                                opened.fields \o wrote.fields, last.max)
        /\ (opened.payload = <<>> /\ opened.fields = <<>>) =>
              LastLine = FreshLine(wrote.meta, wrote.payload, wrote.fields,
                                   last.max)

\* a trimming commit behind earlier lines, payload and fields empty at open
C20_Witness ==
    /\ Committed("truncating")
    /\ snapshot # <<>>
    /\ ~opened.after_clear
    /\ opened.payload = <<>> /\ opened.fields = <<>>
    /\ wrote.payload # <<>>
    /\ last.trimmed.meta # last.meta
    /\ last.trimmed.meta # <<>>

====
